---------------------------- MODULE Spec2Model ----------------------------
(***************************************************************************)
(* A model of run_code (src/main.py, lines 95-177): the sandboxed run of   *)
(* a code snippet in a temporary directory, with the child process, the    *)
(* processes the child forks, the file system and the wall clock as the    *)
(* environment.                                                            *)
(*                                                                         *)
(* Encodings.  A Python string that the code inspects (the language tag)   *)
(* is a sequence of one-character strings.  A Python value that may be     *)
(* None is a tuple: <<>> is None and <<v>> is the value v.  The text of an *)
(* output stream is a record [src, len, type]: the first len characters    *)
(* of what the child wrote to stream src (or a literal of the code, or     *)
(* None), of Python type str or bytes; a text read from a pipe also names  *)
(* the call whose child wrote it (pid).  A result dict is a record whose   *)
(* DOMAIN is the set of keys of the dict.                                  *)
(***************************************************************************)
EXTENDS Integers, Sequences, FiniteSets, TLC

VARIABLES
    POSIX,   \* main.py:23-27, whether the resource module could be imported
    path,    \* the executables on the host search path (shutil.which)
    rlimits, \* the resource limits of the process that calls run_code
    fs,      \* the temporary directories: fs[d] = [exists, files]
    frame,   \* frame[c]: the activation of run_code for call c
    child,   \* child[c]: the process spawned by subprocess.run for call c
    desc     \* desc[c]: a process forked by that child

vars == <<POSIX, path, rlimits, fs, frame, child, desc>>

----------------------------------------------------------------------------
(* Bounds of the model *)

MaxCalls == 2      \* invocations of run_code that exist in the model
MaxTimeout == 2    \* largest timeout_seconds a caller passes explicitly
MaxExitCode == 1   \* exit codes of the child range over 0..MaxExitCode
MaxExtra == 1      \* a stream carries at most MAX_OUTPUT + MaxExtra characters

(* Constants of the program *)

MAX_OUTPUT == 20000        \* proc.stdout[:20000]
DEFAULT_TIMEOUT == 10      \* timeout_seconds: int = 10
SIGKILL == 9               \* process.kill() of subprocess.run
TIMEOUT_LEN == 7           \* len("TIMEOUT")
CPU_SOFT == 6              \* RLIMIT_CPU, soft
CPU_HARD == 8              \* RLIMIT_CPU, hard
AS_MIB == 256              \* RLIMIT_AS, in MiB
FSIZE_MIB == 10            \* RLIMIT_FSIZE, in MiB

Calls == 1 .. MaxCalls
DirNames == 1 .. MaxCalls

None == <<>>
Some(v) == <<v>>

Min(a, b) == IF a <= b THEN a ELSE b

\* k in d, for a dict d
HasKey(r, k) == k \in DOMAIN r

----------------------------------------------------------------------------
(* Python values of the language argument *)

Str(s) == [type |-> "str", val |-> s]
NoneValue == [type |-> "NoneType"]
IntValue(n) == [type |-> "int", n |-> n]

UpperCase == <<"A","B","C","D","E","F","G","H","I","J","K","L","M",
               "N","O","P","Q","R","S","T","U","V","W","X","Y","Z">>
LowerCase == <<"a","b","c","d","e","f","g","h","i","j","k","l","m",
               "n","o","p","q","r","s","t","u","v","w","x","y","z">>

LowerChar(ch) ==
    IF \E i \in DOMAIN UpperCase : UpperCase[i] = ch
    THEN LowerCase[CHOOSE i \in DOMAIN UpperCase : UpperCase[i] = ch]
    ELSE ch

\* str.lower()
Lower(s) == [i \in DOMAIN s |-> LowerChar(s[i])]

\* truth value of a Python object
Truthy(v) ==
    CASE v.type = "NoneType" -> FALSE
      [] v.type = "str" -> Len(v.val) > 0
      [] v.type = "int" -> v.n # 0

PYTHON == <<"p","y","t","h","o","n">>

\* language or "python"
OrPython(v) == IF Truthy(v) THEN v ELSE Str(PYTHON)

PythonAliases == { <<"p","y">>, PYTHON }
JavaScriptAliases == { <<"j","s">>, <<"n","o","d","e">>,
                       <<"j","a","v","a","s","c","r","i","p","t">> }
ShellAliases == { <<"s","h">>, <<"b","a","s","h">> }

\* the if / elif / elif / else chain on language
Family(language) ==
    CASE language \in PythonAliases -> "Python"
      [] language \in JavaScriptAliases -> "JavaScript"
      [] language \in ShellAliases -> "Shell"
      [] OTHER -> "Unsupported"

FileNameMain(family) == "main.py"

FileName(family) ==
    CASE family = "Python" -> "main.py"
      [] family = "JavaScript" -> "main.js"
      [] family = "Shell" -> "run.sh"

\* the names looked up with shutil.which, in the order of the "or" chain
Candidates(family) ==
    CASE family = "Python" -> <<"python3", "python">>
      [] family = "JavaScript" -> <<"node">>
      [] family = "Shell" -> <<"bash", "sh">>

\* shutil.which(a) or shutil.which(b): the first candidate on the path
Which(family, onPath) ==
    LET cs == Candidates(family)
        found == { i \in DOMAIN cs : cs[i] \in onPath }
    IN  IF found = {} THEN None
        ELSE Some(cs[CHOOSE i \in found : \A j \in found : i <= j])

Command(family, exec, filename) ==
    IF family = "Python" THEN <<exec, "-u", filename>> ELSE <<exec, filename>>

----------------------------------------------------------------------------
(* Texts of the output streams *)

Text(src, len, type) == [src |-> src, len |-> len, type |-> type]
\* what the process of call c wrote to a stream
ChildText(c, src, len, type) == [src |-> src, len |-> len, type |-> type, pid |-> c]
NoText == Text("none", 0, "NoneType")
EmptyStr == Text("literal", 0, "str")
TIMEOUT == Text("literal", TIMEOUT_LEN, "str")

\* t[:n]
Slice(t, n) == [t EXCEPT !.len = Min(t.len, n)]

OrDefault(v, default) == default

\* v or default
Or(v, default) == IF v.type = "NoneType" \/ v.len = 0 THEN default ELSE v


----------------------------------------------------------------------------
(* The dicts run_code returns *)

\* return {"success": False, "error": "... not found on server."}
NotFoundResult(family) ==
    [success |-> FALSE,
     error |-> CASE family = "Python" -> <<"python interpreter not found on server.">>
                 [] family = "JavaScript" -> <<"node not found on server.">>
                 [] family = "Shell" -> <<"sh/bash not found on server.">>]

\* return {"success": False, "error": f"Unsupported language: {language}"}
UnsupportedResult(language) ==
    [success |-> FALSE, error |-> <<"Unsupported language: ", language>>]

CompletedResultAlwaysSuccess(proc) ==
    [success |-> TRUE,
     stdout |-> Slice(proc.stdout, MAX_OUTPUT),
     stderr |-> Slice(proc.stderr, MAX_OUTPUT),
     exit_code |-> Some(proc.returncode),
     timed_out |-> FALSE]

\* the return after subprocess.run; proc is the CompletedProcess
CompletedResult(proc) ==
    [success |-> proc.returncode = 0,
     stdout |-> Slice(proc.stdout, MAX_OUTPUT),
     stderr |-> Slice(proc.stderr, MAX_OUTPUT),
     exit_code |-> Some(proc.returncode),
     timed_out |-> FALSE]

TimeoutResultWithCode(e) ==
    [success |-> FALSE,
     stdout |-> Or(e.output, EmptyStr),
     stderr |-> Or(e.stderr, TIMEOUT),
     exit_code |-> Some(0 - SIGKILL),
     timed_out |-> TRUE]

\* except subprocess.TimeoutExpired as e
TimeoutResult(e) ==
    [success |-> FALSE,
     stdout |-> Or(e.output, EmptyStr),
     stderr |-> Or(e.stderr, TIMEOUT),
     exit_code |-> None,
     timed_out |-> TRUE]

\* except Exception as e
ErrorResult(e) ==
    [success |-> FALSE, error |-> <<"Execution error: ", e>>]

----------------------------------------------------------------------------
(* The environment: processes and directories *)

NoProcess == [state |-> "none", returncode |-> None, out |-> 0, err |-> 0,
              limits |-> None, cwd |-> None, inTime |-> FALSE]
NoDescendant == [state |-> "none", pipes |-> FALSE]
NoDirectory == [exists |-> FALSE, files |-> {}]

IdleFrame == [pc |-> "idle", language |-> None, code |-> None,
              timeout_seconds |-> None, tmpdir |-> None, filename |-> None,
              cmd |-> None, ret |-> None, result |-> None, exception |-> None,
              elapsed |-> 0, rmtrees |-> 0, swallowed |-> None,
              request |-> None, response |-> None]
\* ret: the value of the return statement that the finally clause suspends;
\* result: what the caller receives; exception: what escaped to the caller;
\* elapsed: the seconds communicate() has waited (0 outside subprocess.run);
\* rmtrees: the calls of shutil.rmtree made so far; swallowed: the exception
\* that "except Exception: pass" (lines 176-177) discarded; request: the JSON
\* body of the /run request that made the call (None for a direct call);
\* response: the HTTP response of run_endpoint

\* the lengths a stream of the child can have
Lengths == {0, 1} \cup { MAX_OUTPUT + k : k \in 0 .. MaxExtra }

\* the child is gone: it exited or was killed, reaped or not
Exited(c) == child[c].state \in {"zombie", "reaped"}

\* a live descendant that inherited the pipes keeps their write ends open
PipesHeld(c) == desc[c].state = "running" /\ desc[c].pipes

\* communicate() has read end-of-file on both pipes and can reap the child
Complete(c) == Exited(c) /\ ~PipesHeld(c)

\* what the parent has read from the pipes: all the child has written
Captured(c, type) ==
    [output |-> ChildText(c, "stdout", child[c].out, type),
     stderr |-> ChildText(c, "stderr", child[c].err, type)]

\* the TimeoutExpired of POSIX _communicate: the chunks read so far, joined
\* as bytes, or None when no chunk was read
PosixPartial(c) ==
    [output |-> IF child[c].out = 0 THEN NoText
                ELSE ChildText(c, "stdout", child[c].out, "bytes"),
     stderr |-> IF child[c].err = 0 THEN NoText
                ELSE ChildText(c, "stderr", child[c].err, "bytes")]


SetLimitsNever(posix) == None

\* _set_limits, run in the child between fork and exec: the limits it sets
SetLimits(posix) ==
    IF ~posix THEN None
    ELSE Some([cpu |-> <<CPU_SOFT, CPU_HARD>>,
               as |-> <<AS_MIB * 1024 * 1024, AS_MIB * 1024 * 1024>>,
               fsize |-> <<FSIZE_MIB * 1024 * 1024, FSIZE_MIB * 1024 * 1024>>])

\* preexec_fn=_set_limits if POSIX else None: Popen calls it in the forked
\* child, before the exec of the interpreter; procs are the limits of the
\* two processes
Preexec(posix, procs) == [procs EXCEPT !.child = SetLimits(posix)]

----------------------------------------------------------------------------
(* The inputs *)

LanguageValues ==
    { Str(<<"p","y">>), Str(<<"P","y","t","h","o","n">>), Str(<<"J","S">>),
      Str(<<"n","o","d","e">>), Str(<<"B","a","s","h">>), Str(<<"s","h">>),
      Str(<<"r","u","b","y">>), Str(<<>>), NoneValue, IntValue(5) }

Codes == { "", "print(1)" }

\* timeout_seconds as passed: None stands for an omitted argument
TimeoutArgs == { None } \cup { Some(t) : t \in 0 .. MaxTimeout }

Hosts == { {}, {"python", "sh"}, {"python3", "python", "node", "bash", "sh"} }

Init ==
    /\ POSIX \in BOOLEAN
    /\ path \in Hosts
    /\ rlimits = None
    /\ fs = [d \in DirNames |-> NoDirectory]
    /\ frame = [c \in Calls |-> IdleFrame]
    /\ child = [c \in Calls |-> NoProcess]
    /\ desc = [c \in Calls |-> NoDescendant]

----------------------------------------------------------------------------
(* run_code, statement by statement *)

\* def run_code(language, code, timeout_seconds=10): the call binds the
\* arguments, drawn from the given sets
CallWith(c, languages, codes, timeouts) ==
    /\ frame[c].pc = "idle"
    /\ \E language \in languages, code \in codes, t \in timeouts :
         frame' = [frame EXCEPT ![c] =
                     [@ EXCEPT !.pc = "lower",
                               !.language = Some(language),
                               !.code = Some(code),
                               !.timeout_seconds =
                                   IF t = None THEN Some(DEFAULT_TIMEOUT) ELSE t]]
    /\ UNCHANGED <<POSIX, path, rlimits, fs, child, desc>>

\* a call of run_code by any caller
Call(c) == CallWith(c, LanguageValues, Codes, TimeoutArgs)

\* line 112: language = (language or "python").lower(), outside the try
LowerLanguage(c) ==
    /\ frame[c].pc = "lower"
    /\ LET v == OrPython(frame[c].language[1])
       IN  frame' = [frame EXCEPT ![c] =
                       IF v.type = "str"
                       THEN [@ EXCEPT !.pc = "mkdtemp", !.language = Some(Str(Lower(v.val)))]
                       ELSE [@ EXCEPT !.pc = "raised", !.exception = Some("AttributeError")]]
    /\ UNCHANGED <<POSIX, path, rlimits, fs, child, desc>>

SameName(dirs) == 1

\* the name tempfile.mkdtemp makes up: one that does not exist.  Names are
\* interchangeable, so the least unused one stands for the random one.
FreshName(dirs) ==
    CHOOSE d \in DirNames : ~dirs[d].exists /\ \A e \in DirNames : e < d => dirs[e].exists

\* line 113: tmpdir = tempfile.mkdtemp(prefix="ai_run_"), outside the try
Mkdtemp(c) ==
    /\ frame[c].pc = "mkdtemp"
    /\ \E d \in DirNames :
         /\ d = FreshName(fs)
         /\ fs' = [fs EXCEPT ![d] = [exists |-> TRUE, files |-> {}]]
         /\ frame' = [frame EXCEPT ![c] = [@ EXCEPT !.pc = "dispatch", !.tmpdir = Some(d)]]
    /\ UNCHANGED <<POSIX, path, rlimits, child, desc>>

\* line 113: mkdtemp raises OSError; no handler is in scope
MkdtempFails(c) ==
    /\ frame[c].pc = "mkdtemp"
    /\ frame' = [frame EXCEPT ![c] = [@ EXCEPT !.pc = "raised", !.exception = Some("OSError")]]
    /\ UNCHANGED <<POSIX, path, rlimits, fs, child, desc>>

DispatchReturnsEarly(c) ==
    /\ frame[c].pc = "dispatch"
    /\ LET language == frame[c].language[1].val
           family == Family(language)
       IN  frame' = [frame EXCEPT ![c] =
                       IF family = "Unsupported"
                       THEN [@ EXCEPT !.pc = "returned",
                                      !.result = Some(UnsupportedResult(language))]
                       ELSE [@ EXCEPT !.pc = "write", !.filename = Some(FileName(family))]]
    /\ UNCHANGED <<POSIX, path, rlimits, fs, child, desc>>

\* lines 118-119, 127-128, 136-137, 146-147: the branch on language
Dispatch(c) ==
    /\ frame[c].pc = "dispatch"
    /\ LET language == frame[c].language[1].val
           family == Family(language)
       IN  frame' = [frame EXCEPT ![c] =
                       IF family = "Unsupported"
                       THEN [@ EXCEPT !.pc = "finally", !.ret = Some(UnsupportedResult(language))]
                       ELSE [@ EXCEPT !.pc = "write", !.filename = Some(FileName(family))]]
    /\ UNCHANGED <<POSIX, path, rlimits, fs, child, desc>>

\* lines 120-121, 129-130, 138-139: open(...,"w") and f.write(code)
WriteSource(c) ==
    /\ frame[c].pc = "write"
    /\ LET d == frame[c].tmpdir[1]
           f == [name |-> frame[c].filename[1], mode |-> "rw-", text |-> frame[c].code[1]]
       IN  fs' = [fs EXCEPT ![d].files = @ \cup {f}]
    /\ frame' = [frame EXCEPT ![c].pc =
                   IF Family(frame[c].language[1].val) = "Shell" THEN "chmod" ELSE "which"]
    /\ UNCHANGED <<POSIX, path, rlimits, child, desc>>

\* the same lines raising OSError, caught by "except Exception" (line 170)
WriteSourceFails(c) ==
    /\ frame[c].pc = "write"
    /\ frame' = [frame EXCEPT ![c] =
                   [@ EXCEPT !.pc = "finally", !.ret = Some(ErrorResult("OSError"))]]
    /\ UNCHANGED <<POSIX, path, rlimits, fs, child, desc>>

\* line 140: os.chmod(path, 0o700)
Chmod(c) ==
    /\ frame[c].pc = "chmod"
    /\ LET d == frame[c].tmpdir[1]
       IN  fs' = [fs EXCEPT ![d].files =
                    { IF f.name = frame[c].filename[1] THEN [f EXCEPT !.mode = "rwx"] ELSE f
                      : f \in @ }]
    /\ frame' = [frame EXCEPT ![c].pc = "which"]
    /\ UNCHANGED <<POSIX, path, rlimits, child, desc>>

\* lines 122-125, 131-134, 141-144: shutil.which and the not-found return
FindInterpreter(c) ==
    /\ frame[c].pc = "which"
    /\ LET family == Family(frame[c].language[1].val)
           exec == Which(family, path)
       IN  frame' = [frame EXCEPT ![c] =
                       IF exec = None
                       THEN [@ EXCEPT !.pc = "finally", !.ret = Some(NotFoundResult(family))]
                       ELSE [@ EXCEPT !.pc = "spawn",
                                      !.cmd = Some(Command(family, exec[1], frame[c].filename[1]))]]
    /\ UNCHANGED <<POSIX, path, rlimits, fs, child, desc>>


\* lines 151-159: subprocess.run starts the child (Popen: fork, preexec_fn, exec)
Spawn(c) ==
    /\ frame[c].pc = "spawn"
    /\ LET procs == Preexec(POSIX, [parent |-> rlimits, child |-> None])
       IN  /\ child' = [child EXCEPT ![c] =
                          [state |-> "running", returncode |-> None, out |-> 0, err |-> 0,
                           limits |-> procs.child, cwd |-> frame[c].tmpdir,
                           inTime |-> FALSE]]
           /\ rlimits' = procs.parent
    /\ frame' = [frame EXCEPT ![c] = [@ EXCEPT !.pc = "wait", !.elapsed = 0]]
    /\ UNCHANGED <<POSIX, path, fs, desc>>

\* lines 151-159: Popen raises (fork or exec failed), caught at line 170
SpawnFails(c) ==
    /\ frame[c].pc = "spawn"
    /\ frame' = [frame EXCEPT ![c] =
                   [@ EXCEPT !.pc = "finally", !.ret = Some(ErrorResult("OSError"))]]
    /\ UNCHANGED <<POSIX, path, rlimits, fs, child, desc>>

----------------------------------------------------------------------------
(* The user program and the clock *)

\* the child writes to stdout or stderr, up to one of the given lengths; the
\* parent reads it at once
ChildWriteUpTo(c, lengths) ==
    /\ child[c].state = "running"
    /\ \E n \in lengths :
         \/ /\ n > child[c].out
            /\ child' = [child EXCEPT ![c].out = n]
         \/ /\ n > child[c].err
            /\ child' = [child EXCEPT ![c].err = n]
    /\ UNCHANGED <<POSIX, path, rlimits, fs, frame, desc>>

ChildWrite(c) == ChildWriteUpTo(c, Lengths)

\* the child forks a process, which inherits the pipes unless it closes them
ChildFork(c) ==
    /\ child[c].state = "running"
    /\ desc[c].state = "none"
    /\ \E pipes \in BOOLEAN :
         desc' = [desc EXCEPT ![c] = [state |-> "running", pipes |-> pipes]]
    /\ UNCHANGED <<POSIX, path, rlimits, fs, frame, child>>

\* the child exits on its own; inTime records whether it did so before
\* timeout_seconds had elapsed
ChildExit(c) ==
    /\ child[c].state = "running"
    /\ \E rc \in 0 .. MaxExitCode :
         child' = [child EXCEPT ![c] =
                     [@ EXCEPT !.state = "zombie", !.returncode = Some(rc),
                               !.inTime = frame[c].elapsed < frame[c].timeout_seconds[1]]]
    /\ UNCHANGED <<POSIX, path, rlimits, fs, frame, desc>>

\* the forked process exits on its own
DescendantExit(c) ==
    /\ desc[c].state = "running"
    /\ desc' = [desc EXCEPT ![c].state = "dead"]
    /\ UNCHANGED <<POSIX, path, rlimits, fs, frame, child>>

\* a second passes while communicate(timeout=timeout_seconds) is waiting
Tick(c) ==
    /\ frame[c].pc = "wait"
    /\ ~Complete(c)
    /\ frame[c].elapsed < frame[c].timeout_seconds[1]
    /\ frame' = [frame EXCEPT ![c].elapsed = @ + 1]
    /\ UNCHANGED <<POSIX, path, rlimits, fs, child, desc>>

----------------------------------------------------------------------------
(* subprocess.run returning or raising, and the handlers of run_code *)

\* lines 151-166: end-of-file on both pipes, the child reaped, the dict returned
Completed(c) ==
    /\ frame[c].pc = "wait"
    /\ Complete(c)
    /\ LET proc == [returncode |-> child[c].returncode[1],
                    stdout |-> Captured(c, "str").output,
                    stderr |-> Captured(c, "str").stderr]
       IN  frame' = [frame EXCEPT ![c] =
                       [@ EXCEPT !.pc = "finally", !.elapsed = 0,
                                 !.ret = Some(CompletedResult(proc))]]
    /\ child' = [child EXCEPT ![c].state = "reaped"]
    /\ UNCHANGED <<POSIX, path, rlimits, fs, desc>>

\* lines 151-159 and 170-171: text=True decodes what was read after the child
\* was reaped; bytes that are no UTF-8 raise UnicodeDecodeError
DecodeFails(c) ==
    /\ frame[c].pc = "wait"
    /\ Complete(c)
    /\ child[c].out + child[c].err > 0
    /\ frame' = [frame EXCEPT ![c] =
                   [@ EXCEPT !.pc = "finally", !.elapsed = 0,
                             !.ret = Some(ErrorResult("UnicodeDecodeError"))]]
    /\ child' = [child EXCEPT ![c].state = "reaped"]
    /\ UNCHANGED <<POSIX, path, rlimits, fs, desc>>

KillNothing(p) == p

\* process.kill(): SIGKILL to the child alone, nothing to a child that exited
\* (where there are no signals the child is terminated likewise; the model
\* keeps the one return code for a killed child)
Kill(p) ==
    IF p.state = "running"
    THEN [p EXCEPT !.state = "zombie", !.returncode = Some(0 - SIGKILL)]
    ELSE p

\* lines 151-159: the timeout of communicate expires; subprocess.run kills
TimeoutExpires(c) ==
    /\ frame[c].pc = "wait"
    /\ frame[c].elapsed >= frame[c].timeout_seconds[1]
    /\ child' = [child EXCEPT ![c] = Kill(@)]
    /\ frame' = [frame EXCEPT ![c] = [@ EXCEPT !.pc = "killed", !.elapsed = 0]]
    /\ UNCHANGED <<POSIX, path, rlimits, fs, desc>>

\* what subprocess.run does between kill() and re-raising TimeoutExpired:
\* on POSIX process.wait(); elsewhere process.communicate(), which returns
\* at end-of-file on the pipes
CanCollect(c) == POSIX \/ ~PipesHeld(c)

\* the output attributes of the TimeoutExpired that reaches line 168
TimeoutOutput(c) == IF POSIX THEN PosixPartial(c) ELSE Captured(c, "str")

TimeoutCollectNoWait(c) ==
    /\ frame[c].pc = "killed"
    /\ frame' = [frame EXCEPT ![c] =
                   [@ EXCEPT !.pc = "finally", !.elapsed = 0,
                             !.ret = Some(TimeoutResult(TimeoutOutput(c)))]]
    /\ UNCHANGED <<POSIX, path, rlimits, fs, child, desc>>

\* lines 168-169: the TimeoutExpired handler
TimeoutCollect(c) ==
    /\ frame[c].pc = "killed"
    /\ CanCollect(c)
    /\ child' = [child EXCEPT ![c].state = "reaped"]
    /\ frame' = [frame EXCEPT ![c] =
                   [@ EXCEPT !.pc = "finally", !.elapsed = 0,
                             !.ret = Some(TimeoutResult(TimeoutOutput(c)))]]
    /\ UNCHANGED <<POSIX, path, rlimits, fs, desc>>

RemovedNothing(dir) == dir

\* the state of the directory after shutil.rmtree(tmpdir) returned normally
Removed(dir) == NoDirectory

\* lines 172-175: finally, shutil.rmtree(tmpdir) succeeds, the pending return
\* is completed
Cleanup(c) ==
    /\ frame[c].pc = "finally"
    /\ fs' = [fs EXCEPT ![frame[c].tmpdir[1]] = Removed(@)]
    /\ frame' = [frame EXCEPT ![c] =
                   [@ EXCEPT !.pc = "returned", !.result = frame[c].ret,
                             !.rmtrees = @ + 1]]
    /\ UNCHANGED <<POSIX, path, rlimits, child, desc>>

CleanupFailsRaises(c) ==
    /\ frame[c].pc = "finally"
    /\ frame' = [frame EXCEPT ![c] =
                   [@ EXCEPT !.pc = "raised", !.exception = Some("OSError"),
                             !.rmtrees = @ + 1]]
    /\ UNCHANGED <<POSIX, path, rlimits, fs, child, desc>>

\* lines 172-177: shutil.rmtree raises, "except Exception: pass"
CleanupFails(c) ==
    /\ frame[c].pc = "finally"
    /\ frame' = [frame EXCEPT ![c] =
                   [@ EXCEPT !.pc = "returned", !.result = frame[c].ret,
                             !.rmtrees = @ + 1, !.swallowed = Some("OSError")]]
    /\ UNCHANGED <<POSIX, path, rlimits, fs, child, desc>>

----------------------------------------------------------------------------

\* the statements of the body of run_code
Statements(c) ==
    \/ LowerLanguage(c)
    \/ Mkdtemp(c)
    \/ MkdtempFails(c)
    \/ Dispatch(c)
    \/ WriteSource(c)
    \/ WriteSourceFails(c)
    \/ Chmod(c)
    \/ FindInterpreter(c)
    \/ Spawn(c)
    \/ SpawnFails(c)
    \/ Completed(c)
    \/ DecodeFails(c)
    \/ TimeoutExpires(c)
    \/ TimeoutCollect(c)
    \/ Cleanup(c)
    \/ CleanupFails(c)

RunCode(c) == Call(c) \/ Statements(c)

Program(c) ==
    \/ ChildWrite(c)
    \/ ChildFork(c)
    \/ ChildExit(c)
    \/ DescendantExit(c)

\* one invocation of run_code
Next == RunCode(1) \/ Program(1) \/ Tick(1)

Spec == Init /\ [][Next]_vars

----------------------------------------------------------------------------
(* run_endpoint, the /run route (lines 470-483) *)

\* the JSON bodies of the requests: a key that is absent is None
Requests ==
    [language : { None, Some(Str(<<"p","y">>)), Some(Str(<<"B","a","s","h">>)),
                  Some(Str(<<"r","u","b","y">>)), Some(Str(<<>>)), Some(NoneValue) },
     code : { None, Some(""), Some("print(1)") },
     timeout_seconds : { None, Some(MaxTimeout) }]

\* data.get(key, default)
Get(data, key, default) == IF data[key] = None THEN default ELSE data[key][1]

NeverEmpty(code) == FALSE

\* not code
NotCode(code) == code = ""

\* lines 476-482: the body is read, a request without code is refused with
\* status 400, any other calls run_code(language, code, timeout_seconds=10)
RunEndpoint(c) ==
    /\ frame[c].pc = "idle"
    /\ \E data \in Requests :
         LET language == Get(data, "language", Str(PYTHON))
             code == Get(data, "code", "")
         IN  frame' = [frame EXCEPT ![c] =
                         IF NotCode(code)
                         THEN [@ EXCEPT !.pc = "responded",
                                        !.request = Some(data),
                                        !.response =
                                            Some([status |-> 400,
                                                  body |-> Some([error |-> <<"No code provided">>])])]
                         ELSE [@ EXCEPT !.pc = "lower",
                                        !.request = Some(data),
                                        !.language = Some(language),
                                        !.code = Some(code),
                                        !.timeout_seconds = Some(10)]]
    /\ UNCHANGED <<POSIX, path, rlimits, fs, child, desc>>

\* json.dumps cannot serialise bytes
Serialisable(r) ==
    HasKey(r, "stdout") => r.stdout.type # "bytes" /\ r.stderr.type # "bytes"

\* line 483: return jsonify(res); a TypeError of the serialiser becomes the
\* 500 response of the framework
Jsonify(c) ==
    /\ frame[c].pc = "returned"
    /\ frame[c].request # None
    /\ LET res == frame[c].result[1]
       IN  frame' = [frame EXCEPT ![c] =
                       [@ EXCEPT !.pc = "responded",
                                 !.response =
                                     IF Serialisable(res)
                                     THEN Some([status |-> 200, body |-> Some(res)])
                                     ELSE Some([status |-> 500, body |-> None])]]
    /\ UNCHANGED <<POSIX, path, rlimits, fs, child, desc>>

\* one request to /run
NextEndpoint == RunEndpoint(1) \/ Statements(1) \/ Jsonify(1) \/ Program(1) \/ Tick(1)

SpecEndpoint == Init /\ [][NextEndpoint]_vars

----------------------------------------------------------------------------
(* Two invocations of run_code at once, in two threads of the server *)

ConcurrentLanguages ==
    { Str(<<"p","y">>), Str(<<"s","h">>), Str(<<"r","u","b","y">>) }

\* the two requests carry different source texts
ConcurrentCode(c) == IF c = 1 THEN "print(1)" ELSE ""

ConcurrentCall(c) == CallWith(c, ConcurrentLanguages, {ConcurrentCode(c)}, {Some(1)})

\* a host with every interpreter installed
InitConcurrent == Init /\ path = {"python3", "python", "node", "bash", "sh"}

\* a user program that writes a character to a stream
ShortWrite(c) == ChildWriteUpTo(c, {1})

NextConcurrent ==
    \E c \in {1, 2} :
        \/ ConcurrentCall(c)
        \/ Statements(c)
        \/ ShortWrite(c)
        \/ ChildExit(c)
        \/ Tick(c)

SpecConcurrent == InitConcurrent /\ [][NextConcurrent]_vars

\* the scheduling of the interpreter: a statement of run_code that can run
\* does run, and the clock advances; the user program owes nothing
FairSpec == Spec /\ WF_vars(RunCode(1)) /\ WF_vars(Tick(1))

----------------------------------------------------------------------------
(* Properties *)

Returned(c) == frame[c].pc = "returned"
Result(c) == frame[c].result[1]
TimedOut(r) == HasKey(r, "timed_out") /\ r.timed_out
WorkspaceExists(c) == frame[c].tmpdir # None /\ fs[frame[c].tmpdir[1]].exists

\* C1, as stated: whenever run_code has returned, the workspace directory
\* made for the invocation no longer exists.
C1_WorkspaceGoneOnReturn ==
    \A c \in Calls : Returned(c) => ~WorkspaceExists(c)

\* C1, amended: whenever run_code has returned, shutil.rmtree was called once
\* on the workspace, and the workspace no longer exists unless that call
\* raised (the exception being discarded).
C1_WorkspaceGoneUnlessRmtreeRaised ==
    \A c \in Calls :
        Returned(c) =>
            /\ frame[c].rmtrees = 1
            /\ WorkspaceExists(c) => frame[c].swallowed # None

C1_Witness ==
    \E c \in Calls :
        /\ Returned(c)
        /\ HasKey(Result(c), "exit_code")
        /\ frame[c].tmpdir # None
        /\ ~WorkspaceExists(c)

\* C2: once the language of an invocation is known to be none of the
\* aliases, no workspace directory has been created and no child spawned.
C2_UnsupportedMakesNothing ==
    \A c \in Calls :
        ( /\ frame[c].pc \in {"mkdtemp", "dispatch", "finally", "returned"}
          /\ Family(frame[c].language[1].val) = "Unsupported" )
        => /\ frame[c].tmpdir = None
           /\ child[c].state = "none"

\* C3: when run_code is about to return an interpreter-not-found error, no
\* workspace directory has been created, no source file written and no child
\* spawned.
C3_NotFoundBeforeWorkspace ==
    \A c \in Calls :
        ( /\ frame[c].ret # None
          /\ \E family \in {"Python", "JavaScript", "Shell"} :
                 frame[c].ret[1] = NotFoundResult(family) )
        => /\ frame[c].tmpdir = None
           /\ child[c].state = "none"

\* C4: no exception escapes run_code.
C4_NoExceptionEscapes ==
    \A c \in Calls : frame[c].pc # "raised"

NormalOutcome(r) ==
    /\ HasKey(r, "exit_code") /\ r.exit_code # None /\ r.exit_code[1] \in Int
    /\ HasKey(r, "timed_out") /\ ~r.timed_out
    /\ ~HasKey(r, "error")

TimeoutOutcome(r) ==
    /\ HasKey(r, "timed_out") /\ r.timed_out
    /\ HasKey(r, "exit_code") /\ r.exit_code = None
    /\ ~HasKey(r, "error")

ErrorOutcome(r) ==
    /\ HasKey(r, "error")
    /\ ~HasKey(r, "exit_code")
    /\ ~TimedOut(r)

C7_OutputTruncated ==
    \A c \in Calls :
        (Returned(c) /\ HasKey(Result(c), "stdout")) =>
            LET r == Result(c)
            IN  /\ r.stdout.len <= MAX_OUTPUT
                /\ r.stderr.len <= MAX_OUTPUT
                /\ child[c].out > MAX_OUTPUT => r.stdout.src = "stdout" /\ r.stdout.len = MAX_OUTPUT
                /\ child[c].err > MAX_OUTPUT => r.stderr.src = "stderr" /\ r.stderr.len = MAX_OUTPUT

\* what both versions of C8 say of the timeout: it terminates the child, a
\* child that was killed gives a timed_out result, and a timed_out result has
\* exit_code None, success false and a reaped child
TimeoutTerminates(c) ==
    /\ frame[c].pc = "killed" => Exited(c)
    /\ Returned(c) =>
         LET r == Result(c)
         IN  /\ child[c].returncode = Some(0 - SIGKILL) => TimedOut(r)
             /\ TimedOut(r) => /\ r.exit_code = None
                               /\ ~r.success
                               /\ child[c].state = "reaped"

C9_NoDescendantSurvivesTimeout ==
    \A c \in Calls :
        (Returned(c) /\ TimedOut(Result(c))) =>
            /\ child[c].state # "running"
            /\ desc[c].state # "running"

\* C10: every invocation of run_code comes to an end.
C10_CallEnds ==
    \A c \in Calls :
        (frame[c].pc = "lower") ~> (frame[c].pc \in {"returned", "raised"})


\* the workspace of call c is in use: made, and not yet handed to rmtree
Live(c) ==
    frame[c].pc \in {"dispatch", "write", "chmod", "which", "spawn", "wait",
                     "killed", "finally"}

\* the source file of call c is written and the child may be using it
SourceInUse(c) == frame[c].pc \in {"chmod", "which", "spawn", "wait", "killed"}

\* the workspace of call c holds the source file of call c and nothing else
OwnSourceOnly(c) ==
    LET files == fs[frame[c].tmpdir[1]].files
    IN  /\ Cardinality(files) = 1
        /\ \A f \in files : f.name = frame[c].filename[1] /\ f.text = frame[c].code[1]

\* the texts of result r that were read from a pipe
PipeTexts(r) == { t \in {r.stdout, r.stderr} : HasKey(t, "pid") }

\* C11: of two invocations running at once, under every interleaving, the
\* workspaces are distinct, a workspace in use exists and a source file in use
\* is as its own invocation wrote it whatever the other invocation does, and
\* a result holds output of its own child only.
C11_InvocationsIsolated ==
    \A c \in Calls :
        /\ \A o \in Calls \ {c} :
               (Live(c) /\ Live(o)) => frame[c].tmpdir # frame[o].tmpdir
        /\ Live(c) => fs[frame[c].tmpdir[1]].exists
        /\ SourceInUse(c) => OwnSourceOnly(c)
        /\ (Returned(c) /\ HasKey(Result(c), "stdout")) =>
               \A t \in PipeTexts(Result(c)) : t.pid = c

C11_Witness ==
    /\ Returned(1)
    /\ HasKey(Result(1), "stdout")
    /\ Result(1).stdout = ChildText(1, "stdout", 1, "str")
    /\ ~WorkspaceExists(1)
    /\ frame[2].pc = "wait"
    /\ child[2].err = 1
    /\ OwnSourceOnly(2)

\* the value is, in some spelling of upper and lower case, one of the aliases
IsAlias(v) == v.type = "str" /\ Family(Lower(v.val)) # "Unsupported"

\* C12: language resolution ignores case and maps each alias to its family;
\* every other string, the empty one included, and the absent value (None)
\* resolve to no family: the branch taken at lines 118-147 is the
\* unsupported-language one, never that of a default language.
C12_OnlyAliasesResolve ==
    [][\A c \in Calls :
         (frame[c].pc = "lower" /\ frame'[c].pc # "lower") =>
             LET v == frame[c].language[1]
             IN  v.type \in {"str", "NoneType"} =>
                     /\ frame'[c].pc = "mkdtemp"
                     /\ Family(frame'[c].language[1].val) =
                            IF IsAlias(v) THEN Family(Lower(v.val)) ELSE "Unsupported"]_vars

ResultFields == {"success", "stdout", "stderr", "exit_code", "timed_out"}

\* C13: every result run_code returns carries success, stdout, stderr,
\* exit_code and timed_out, the error results included; only error is optional.
C13_ResultHasAllFields ==
    \A c \in Calls :
        Returned(c) =>
            /\ ResultFields \subseteq DOMAIN Result(c)
            /\ DOMAIN Result(c) \subseteq ResultFields \cup {"error"}

\* the call is over: it returned or raised
Over(c) == frame[c].pc \in {"returned", "raised"}

\* C14: on every path of run_code on which a workspace was created,
\* shutil.rmtree is called on it exactly once: not before the finally clause,
\* never twice, and never zero times by the time the call is over.
C14_RmtreeExactlyOnce ==
    \A c \in Calls :
        /\ frame[c].rmtrees <= 1
        /\ ~Over(c) => frame[c].rmtrees = 0
        /\ Over(c) => (frame[c].rmtrees = 1 <=> frame[c].tmpdir # None)

C14_Witness ==
    /\ Returned(1)
    /\ HasKey(Result(1), "error")
    /\ Result(1).error[1] = "Execution error: "
    /\ frame[1].tmpdir # None
    /\ frame[1].rmtrees = 1

\* C15: when shutil.rmtree fails (it was called and the workspace is still
\* there), the failure is suppressed: the exception is discarded, nothing is
\* raised, and the caller receives the very value of the return statement the
\* finally clause had suspended, which is what it receives when the removal
\* succeeds.
C15_RmtreeFailureSuppressed ==
    \A c \in Calls :
        (frame[c].rmtrees = 1 /\ WorkspaceExists(c)) =>
            /\ frame[c].swallowed # None
            /\ Returned(c)
            /\ frame[c].exception = None
            /\ frame[c].ret # None
            /\ frame[c].result = frame[c].ret

C15_Witness ==
    /\ frame[1].swallowed # None
    /\ WorkspaceExists(1)
    /\ Returned(1)
    /\ Result(1).success
    /\ Result(1).stdout.len = 1

\* the text t is the first n characters the child of call c wrote to the
\* stream; an empty text is the same text whoever made it
SameText(t, c, stream, n) ==
    /\ t.len = n
    /\ n > 0 => (t.src = stream /\ t.pid = c)

\* t is what the child wrote to the stream, whole or cut at MAX_OUTPUT
CapturedText(t, c, stream, written) ==
    \/ SameText(t, c, stream, written)
    \/ SameText(t, c, stream, Min(written, MAX_OUTPUT))

\* the call ran a child that ended on a timeout or with a non-zero exit code
TimeoutOrNonZero(c) ==
    /\ Returned(c)
    /\ child[c].state = "reaped"
    /\ TimedOut(Result(c)) \/ child[c].returncode # Some(0)

CodeMissingOrEmpty(c) ==
    /\ frame[c].request # None
    /\ frame[c].request[1].code \in {None, Some("")}

\* C17: a /run request with missing or empty code is answered with an error,
\* and run_code is not called for it: no argument is bound, no workspace is
\* created, no process is spawned.
C17_NoCodeNoRun ==
    \A c \in Calls :
        CodeMissingOrEmpty(c) =>
            /\ frame[c].pc = "responded"
            /\ frame[c].response[1].status = 400
            /\ HasKey(frame[c].response[1].body[1], "error")
            /\ frame[c].code = None
            /\ frame[c].tmpdir = None
            /\ frame[c].rmtrees = 0
            /\ child[c].state = "none"
            /\ \A d \in DirNames : ~fs[d].exists

C17_Witness ==
    /\ CodeMissingOrEmpty(1)
    /\ frame[1].request[1].code = Some("")
    /\ frame[1].request[1].language = Some(Str(<<"p","y">>))
    /\ frame[1].pc = "responded"
    /\ frame[1].response[1].body[1] = [error |-> <<"No code provided">>]

\* the timeout the caller of /run asked for: timeout_seconds of the request,
\* 10 seconds when the request has none
RequestedTimeout(data) ==
    IF data.timeout_seconds = None THEN DEFAULT_TIMEOUT ELSE data.timeout_seconds[1]

\* C18: the wall-clock bound of the child is the timeout the caller supplied,
\* 10 seconds when none was supplied, for a /run request carrying
\* timeout_seconds too: run_code is entered with that bound, and the wait for
\* the child never lasts longer.
C18_TimeoutIsTheCallersTimeout ==
    \A c \in Calls :
        (frame[c].request # None /\ frame[c].timeout_seconds # None) =>
            /\ frame[c].timeout_seconds[1] = RequestedTimeout(frame[c].request[1])
            /\ frame[c].elapsed <= RequestedTimeout(frame[c].request[1])

\* the result reports that the language resolved to nothing runnable:
\* unsupported language or interpreter not found
DispatchFailure(r) == HasKey(r, "error") /\ r.error[1] # "Execution error: "

\* the state of the execution of call c, in the terms of the state machine
State(c) ==
    CASE frame[c].pc = "idle" -> "Initial"
      [] frame[c].pc \in {"lower", "mkdtemp"} -> "Created"
      [] frame[c].pc \in {"dispatch", "write", "chmod", "which", "spawn"} -> "WorkspacePrepared"
      [] frame[c].pc \in {"wait", "killed"} -> "ChildSpawned"
      [] frame[c].pc = "finally" ->
             IF NormalOutcome(frame[c].ret[1]) THEN "Completed"
             ELSE IF TimeoutOutcome(frame[c].ret[1]) THEN "TimedOut"
             ELSE IF DispatchFailure(frame[c].ret[1]) THEN "DispatchFailed"
             ELSE "SpawnFailed"
      [] frame[c].pc = "returned" -> "CleanedUp"
      [] OTHER -> "Raised"

\* the moves of the state machine; a failure to start the child counts as
\* SpawnFailed whether it is met before or after the spawn was attempted
Moves ==
    { <<"Initial", "Created">>,
      <<"Created", "WorkspacePrepared">>,
      <<"Created", "CleanedUp">>,
      <<"WorkspacePrepared", "ChildSpawned">>,
      <<"WorkspacePrepared", "SpawnFailed">>,
      <<"ChildSpawned", "Completed">>,
      <<"ChildSpawned", "TimedOut">>,
      <<"ChildSpawned", "SpawnFailed">>,
      <<"Completed", "CleanedUp">>,
      <<"TimedOut", "CleanedUp">>,
      <<"SpawnFailed", "CleanedUp">> }

\* C19: an execution moves only along Created -> WorkspacePrepared ->
\* ChildSpawned -> {Completed | TimedOut | SpawnFailed} -> CleanedUp, a
\* dispatch failure going from Created straight to CleanedUp with no workspace
\* made; the child is spawned only in a workspace that exists and holds the
\* source file; nothing follows CleanedUp.
C19_StateMachine ==
    [][\A c \in Calls :
         /\ State(c)' # State(c) => <<State(c), State(c)'>> \in Moves
         /\ (State(c) # "ChildSpawned" /\ State(c)' = "ChildSpawned") =>
                (WorkspaceExists(c) /\ OwnSourceOnly(c))'
         /\ State(c) = "CleanedUp" => UNCHANGED <<frame[c], child[c]>>]_vars

\* C20: where POSIX holds, every child is spawned with the CPU limit 6 s soft
\* and 8 s hard, the address space limit 256 MiB and the file size limit
\* 10 MiB, in force from the moment it exists (so before the program starts),
\* and the calling process gets no limit; where POSIX does not hold the child
\* has no limits.  On either platform a running child is one subprocess.run
\* is waiting for, for no longer than timeout_seconds.
C20_LimitsOnChildOnly ==
    /\ rlimits = None
    /\ \A c \in Calls :
           child[c].state # "none" =>
               /\ POSIX => child[c].limits = Some([cpu |-> <<6, 8>>,
                                                   as |-> <<268435456, 268435456>>,
                                                   fsize |-> <<10485760, 10485760>>])
               /\ ~POSIX => child[c].limits = None
               /\ child[c].state = "running" =>
                      /\ frame[c].pc = "wait"
                      /\ frame[c].elapsed <= frame[c].timeout_seconds[1]

C20_Witness ==
    /\ POSIX
    /\ child[1].state = "running"
    /\ child[1].limits # None
    /\ frame[1].timeout_seconds = Some(MaxTimeout)
    /\ frame[1].elapsed = MaxTimeout
    /\ rlimits = None

\* the command line has been built: from the assignment of cmd to the end of
\* subprocess.run
Spawning(c) == frame[c].pc \in {"spawn", "wait", "killed"}

\* C21: file name and command line are those of the language family alone:
\* main.py run as <python> -u main.py, main.js run as <node> main.js, run.sh
\* run as <shell> run.sh, the file named explicitly; when the child is
\* spawned the workspace holds that one file with the source text in it, with
\* owner-execute permission exactly when the family is Shell; no workspace
\* ever holds more than one file.
C21_FileAndCommandPerFamily ==
    /\ \A d \in DirNames : Cardinality(fs[d].files) <= 1
    /\ \A c \in Calls :
           Spawning(c) =>
               LET family == Family(frame[c].language[1].val)
                   name == frame[c].filename[1]
                   cmd == frame[c].cmd[1]
                   files == fs[frame[c].tmpdir[1]].files
               IN  /\ family = "Python" =>
                          name = "main.py" /\ cmd = <<cmd[1], "-u", "main.py">>
                   /\ family = "JavaScript" =>
                          name = "main.js" /\ cmd = <<cmd[1], "main.js">>
                   /\ family = "Shell" =>
                          name = "run.sh" /\ cmd = <<cmd[1], "run.sh">>
                   /\ family # "Unsupported"
                   /\ cmd[1] \in path
                   /\ files = {[name |-> name, text |-> frame[c].code[1],
                                mode |-> IF family = "Shell" THEN "rwx" ELSE "rw-"]}

C21_Witness ==
    /\ frame[1].pc = "wait"
    /\ frame[1].cmd = Some(<<"sh", "run.sh">>)
    /\ frame[1].code = Some("print(1)")
    /\ fs[frame[1].tmpdir[1]].files =
           {[name |-> "run.sh", text |-> "print(1)", mode |-> "rwx"]}
    /\ child[1].state = "running"

\* C22: shutil.rmtree is called on the workspace of an invocation only when
\* the child subprocess.run started for it is gone, exited or killed, and
\* reaped (or when no child was started); a running child always has its
\* workspace; and a child is started only by the one subprocess.run of an
\* invocation that has had no child before.
C22_NoRemovalWhileChildRuns ==
    [][\A c \in Calls :
         /\ frame'[c].rmtrees > frame[c].rmtrees =>
                /\ child[c].state \in {"none", "reaped"}
                /\ child'[c] = child[c]
         /\ (WorkspaceExists(c) /\ ~WorkspaceExists(c)') => child[c].state # "running"
         /\ child'[c].state = "running" => WorkspaceExists(c)'
         /\ (child[c].state # "running" /\ child'[c].state = "running") =>
                /\ child[c].state = "none"
                /\ frame[c].pc = "spawn"
         /\ child'[c].state = "none" => child[c].state = "none"]_vars

C22_Witness ==
    /\ Returned(1)
    /\ TimedOut(Result(1))
    /\ frame[1].rmtrees = 1
    /\ ~WorkspaceExists(1)
    /\ child[1].state = "reaped"
    /\ child[1].returncode = Some(0 - SIGKILL)
    /\ child[1].out = 1
    /\ desc[1].state = "none"

============================================================================
